---- MODULE Spec2Model ----
(***************************************************************************)
(* Model of light-client-example:                                          *)
(*   parameter_generator/src/main.rs  H256, merkle_proof_calculator        *)
(*   contract/src/lib.rs              H256, verify_transaction_inclusion,  *)
(*                                    internal_verify_withdraw_callback    *)
(* Three state machines share the module: the Merkle proof builder         *)
(* (SpecMerkle), the H256 hex conversions (SpecHash) and the cross-        *)
(* contract verification protocol: one request over many argument shapes   *)
(* (SpecSubmit), several requests interleaved (SpecProto), and the same    *)
(* with the runtime executing every receipt it holds (FairProto).          *)
(***************************************************************************)
EXTENDS Integers, Sequences, FiniteSets, TLC

VARIABLES
    \* ---- merkle_proof_calculator (main.rs:98-125)
    tx_hashes,              \* argument: the leaf list
    target_index,           \* argument: transaction_position as passed in
    m_pc,                   \* "loop" | "done" | "panic"
    transaction_position,   \* the local of line 99
    merkle_proof,           \* the local of line 100
    current_hashes,         \* the local of line 101
    \* ---- H256 conversions (main.rs:16-32, lib.rs:14-23, 63-74)
    h_input,                \* the hex string handed to from_str
    h_pc,                   \* "start" | "parsed" | "err" | "shown" | "reparsed"
    h_parsed,               \* Result of from_str(h_input)
    h_shown,                \* to_string() of the parsed value
    h_reparsed,             \* Result of from_str(h_shown)
    \* ---- verification protocol (lib.rs:87-128)
    r_state,                \* per request: "none" | "rejected" | "pending" | "settled" | "done"
    r_input,                \* per request: the caller's arguments, as passed
    r_sent,                 \* per request: the ProofArgs handed to btc-client.testnet
    r_dispatched,           \* per request: number of remote calls created
    r_result,               \* per request: the promise result of the remote call
    r_outcome,              \* per request: what the callback ended in
    r_logged,               \* per request: number of "business logic" log lines
    r_error,                \* per request: the panic message of a rejected submit
    r_cb_runs,              \* per request: number of callback executions
    ext_last,               \* the last direct call of the callback: caller, promise results, outcome
    ext_logged              \* number of log lines written by direct calls

merkle_vars == <<tx_hashes, target_index, m_pc, transaction_position,
                 merkle_proof, current_hashes>>
hash_vars == <<h_input, h_pc, h_parsed, h_shown, h_reparsed>>
proto_vars == <<r_state, r_input, r_sent, r_dispatched, r_result, r_outcome,
                r_logged, r_error, r_cb_runs, ext_last, ext_logged>>
vars == <<merkle_vars, hash_vars, proto_vars>>

(***************************************************************************)
(* Bounds                                                                  *)
(***************************************************************************)
MaxLeaves == 6        \* longest leaf list
LeafVals == 2         \* distinct leaf hashes (equal leaves are allowed)
MaxOver == 2          \* how far past the list a target index may point

(***************************************************************************)
(* Merkle proof builder                                                    *)
(***************************************************************************)

\* A leaf hash is the one-element sequence <<v>>, v >= 1.
LeafHash(v) == <<v>>

\* double_sha256 over the 64 concatenated bytes, as a collision-free
\* function of the ordered pair: the node tag 0 followed by both operands
\* (prefix notation, so distinct ordered pairs give distinct values).
double_sha256(concat_inputs) == <<0>> \o concat_inputs

compute_hash(first_tx_hash, second_tx_hash) ==
    double_sha256(first_tx_hash \o second_tx_hash)

\* lines 104-106: an odd level gets its last element pushed once more.
PadLevelNoDup(level) == level
PadLevel(level) ==
    IF Len(level) % 2 = 1 THEN Append(level, level[Len(level)]) ELSE level

\* lines 108-112: the 0-based index read from the padded level.
SiblingIndexAlwaysRight(pos) == pos + 1
SiblingIndex(pos) == IF pos % 2 = 1 THEN pos - 1 ELSE pos + 1

\* lines 114-118: for i in (0..len-1).step_by(2), hash the pair (i, i+1).
NextLevel(level) ==
    [k \in 1..(Len(level) \div 2) |-> compute_hash(level[2 * k - 1], level[2 * k])]

\* line 121
NextPositionSame(pos) == pos
NextPosition(pos) == pos \div 2

MerkleInputs ==
    UNION {[1..n -> {LeafHash(v) : v \in 1..LeafVals}] : n \in 0..MaxLeaves}

\* lines 103-122: one iteration of the while loop. An index past the end of
\* the padded level is a bounds-check panic; nothing has been pushed then.
MerkleStep ==
    /\ m_pc = "loop"
    /\ Len(current_hashes) > 1
    /\ LET padded == PadLevel(current_hashes)
           sib == SiblingIndex(transaction_position)
       IN  IF sib >= Len(padded)
           THEN /\ m_pc' = "panic"
                /\ current_hashes' = padded
                /\ UNCHANGED <<transaction_position, merkle_proof>>
           ELSE /\ merkle_proof' = Append(merkle_proof, padded[sib + 1])
                /\ current_hashes' = NextLevel(padded)
                /\ transaction_position' = NextPosition(transaction_position)
                /\ m_pc' = "loop"
    /\ UNCHANGED <<tx_hashes, target_index, hash_vars, proto_vars>>

\* lines 103, 124: the loop condition fails and merkle_proof is returned.
MerkleReturn ==
    /\ m_pc = "loop"
    /\ Len(current_hashes) <= 1
    /\ m_pc' = "done"
    /\ UNCHANGED <<tx_hashes, target_index, transaction_position,
                   merkle_proof, current_hashes, hash_vars, proto_vars>>

MerkleNext == MerkleStep \/ MerkleReturn

(***************************************************************************)
(* H256: 32 bytes, parsed from and shown as byte-reversed hex               *)
(***************************************************************************)
HashBytes == 32       \* pub struct H256(pub [u8; 32])
MaxPrefix == 2        \* free leading characters of a generated hex string
LenSlack == 2         \* generated strings are within this of 2 * HashBytes

HexDigits == <<"0", "1", "2", "3", "4", "5", "6", "7",
               "8", "9", "a", "b", "c", "d", "e", "f">>
UpperDigits == <<"A", "B", "C", "D", "E", "F">>

\* hex's val(): the value of one hex character of either case, -1 for any
\* other character (the crate's InvalidHexCharacter).
HexVal(c) ==
    IF \E i \in 1..16 : HexDigits[i] = c
    THEN (CHOOSE i \in 1..16 : HexDigits[i] = c) - 1
    ELSE IF \E i \in 1..6 : UpperDigits[i] = c
         THEN (CHOOSE i \in 1..6 : UpperDigits[i] = c) + 9
         ELSE -1

Ok(v) == [ok |-> TRUE, err |-> "", val |-> v]
Err(e) == [ok |-> FALSE, err |-> e, val |-> <<>>]

\* hex::decode_to_slice(s, &mut [0; n]) as called on lines lib.rs:19 and
\* main.rs:21: odd length, then length mismatch, then each character.
HexDecodeToSlice(s, n) ==
    IF Len(s) % 2 # 0 THEN Err("OddLength")
    ELSE IF Len(s) \div 2 # n THEN Err("InvalidStringLength")
    ELSE IF \E i \in 1..Len(s) : HexVal(s[i]) = -1 THEN Err("InvalidHexCharacter")
    ELSE Ok([k \in 1..n |-> HexVal(s[2 * k - 1]) * 16 + HexVal(s[2 * k])])

\* hex::encode: two lowercase digits per byte, high nibble first.
HexEncode(bytes) ==
    [i \in 1..(2 * Len(bytes)) |->
        IF i % 2 = 1 THEN HexDigits[(bytes[(i + 1) \div 2] \div 16) + 1]
                     ELSE HexDigits[(bytes[i \div 2] % 16) + 1]]

\* result.reverse() / self.0.into_iter().rev()
Reverse(s) == [i \in 1..Len(s) |-> s[Len(s) + 1 - i]]

\* impl FromStr for H256: decode, then reverse into natural order.
from_str(s) ==
    LET d == HexDecodeToSlice(s, HashBytes)
    IN  IF d.ok THEN Ok(Reverse(d.val)) ELSE d

\* impl Display for H256 (main.rs) and impl Serialize for H256 (lib.rs):
\* reverse the stored bytes, then hex-encode.
to_string_unreversed(h) == HexEncode(h)
to_string(h) == HexEncode(Reverse(h))

\* Generated hex strings: a free prefix followed by a filler character, of a
\* length around 2 * HashBytes.
PrefixChars == {"0", "1", "a", "F", "g"}
FillChars == {"0", "7"}
HexString(prefix, len, fill) ==
    [i \in 1..len |-> IF i <= Len(prefix) THEN prefix[i] ELSE fill]
HexInputs ==
    {HexString(p, l, f) :
        p \in UNION {[1..n -> PrefixChars] : n \in 0..MaxPrefix},
        l \in (2 * HashBytes - LenSlack)..(2 * HashBytes + LenSlack),
        f \in FillChars}

\* s.parse::<H256>()
HashParse ==
    /\ h_pc = "start"
    /\ h_parsed' = from_str(h_input)
    /\ h_pc' = IF from_str(h_input).ok THEN "parsed" ELSE "err"
    /\ UNCHANGED <<h_input, h_shown, h_reparsed, merkle_vars, proto_vars>>

\* v.to_string() (main.rs:165, 168)
HashShow ==
    /\ h_pc = "parsed"
    /\ h_shown' = to_string(h_parsed.val)
    /\ h_pc' = "shown"
    /\ UNCHANGED <<h_input, h_parsed, h_reparsed, merkle_vars, proto_vars>>

\* the shown string parsed again (the contract parses what the generator prints)
HashReparse ==
    /\ h_pc = "shown"
    /\ h_reparsed' = from_str(h_shown)
    /\ h_pc' = "reparsed"
    /\ UNCHANGED <<h_input, h_parsed, h_shown, merkle_vars, proto_vars>>

HashNext == HashParse \/ HashShow \/ HashReparse

(***************************************************************************)
(* Verification protocol: verify_transaction_inclusion and its callback    *)
(***************************************************************************)
MaxRequests == 2      \* requests in flight at once
MaxProofLen == 2      \* longest merkle_proof argument

Requests == 1..MaxRequests

CurrentAccount == "use-light-client-example.testnet"   \* env::current_account_id()
ExternalAccounts == {"alice.testnet"}

GoodHex == HexString(<<"1", "a">>, 2 * HashBytes, "0")
UpperHex == HexString(<<"A", "b">>, 2 * HashBytes, "7")
OddHex == HexString(<<"1", "a">>, 2 * HashBytes - 1, "0")
ShortHex == HexString(<<"1", "a">>, 2 * HashBytes - 2, "0")
LongHex == HexString(<<"1", "a">>, 2 * HashBytes + 2, "0")
BadCharHex == HexString(<<"1", "g">>, 2 * HashBytes, "0")

Args(tx, bh, ix, pf, cf) ==
    [tx_id |-> tx, tx_block_blockhash |-> bh, tx_index |-> ix,
     merkle_proof |-> pf, confirmations |-> cf]
NoArgs == Args(<<>>, <<>>, 0, <<>>, 0)

ArgsOver(strings, proofStrings, maxProof, indexes) ==
    {Args(tx, bh, ix, pf, 1) :
        tx \in strings, bh \in strings, ix \in indexes,
        pf \in UNION {[1..n -> proofStrings] : n \in 0..maxProof}}

SubmitArgs ==
    ArgsOver({GoodHex, UpperHex, OddHex, ShortHex, LongHex, BadCharHex},
             {GoodHex, UpperHex, ShortHex, BadCharHex},
             MaxProofLen, {0})
ProtoArgs ==
    ArgsOver({GoodHex, OddHex}, {GoodHex}, 0, {0})

\* The promise result the callback reads: env::promise_result(0).
NotReady == [status |-> "NotReady", data |-> ""]
Failed == [status |-> "Failed", data |-> ""]
Successful(bytes) == [status |-> "Successful", data |-> bytes]
ResultBytes == {"true", "false", "null"}
SettledResults == {Failed} \cup {Successful(b) : b \in ResultBytes}

\* lines 102-108: every element parsed in order, the first failure panics.
ParseProofLenient(proof) ==
    LET Good(x) == from_str(x).ok
        kept == SelectSeq(proof, Good)
    IN  Ok([i \in 1..Len(kept) |-> from_str(kept[i]).val])
ParseProof(proof) ==
    IF \A i \in 1..Len(proof) : from_str(proof[i]).ok
    THEN Ok([i \in 1..Len(proof) |-> from_str(proof[i]).val])
    ELSE Err("Invalid merkle_proof")

\* lines 96-110: the ProofArgs literal, its fields evaluated in order; each
\* expect() panics with its message on a parse error.
BuildProofArgs(a) ==
    LET tx == from_str(a.tx_id)
        bh == from_str(a.tx_block_blockhash)
        pf == ParseProof(a.merkle_proof)
    IN  IF ~tx.ok THEN Err("Invalid tx_id")
        ELSE IF ~bh.ok THEN Err("Invalid tx_block_blockhash")
        ELSE IF ~pf.ok THEN pf
        ELSE Ok(Args(tx.val, bh.val, a.tx_index, pf.val, a.confirmations))

\* #[private] (line 117): the generated entry check.
PrivateGuardOff(predecessor, current) == TRUE
PrivateGuard(predecessor, current) == predecessor = current

\* near_sdk::promise_result_as_success(), as used on line 119: exactly one
\* promise result is required; only a Successful one yields Some(bytes).
promise_result_as_success(results) ==
    IF Len(results) # 1 THEN Err("Contract expected a result on the callback")
    ELSE IF results[1].status = "Successful"
         THEN Ok([some |-> TRUE, bytes |-> results[1].data])
         ELSE Ok([some |-> FALSE, bytes |-> ""])

\* serde_json::from_slice::<bool> (line 120)
ParseJsonBool(bytes) ==
    IF bytes = "true" THEN [ok |-> TRUE, err |-> "", val |-> TRUE]
    ELSE IF bytes = "false" THEN [ok |-> TRUE, err |-> "", val |-> FALSE]
    ELSE [ok |-> FALSE, err |-> "expected a boolean", val |-> FALSE]

\* line 121: the log is written when result is true.
ShouldLogAlways(result) == TRUE
ShouldLog(result) == result

Ended(o, l) == [outcome |-> o, log |-> l]

\* lines 117-128: the callback with its #[private] entry check. outcome is
\* "true" / "false" for a returned value, "rejected" for the private check's
\* panic and "panic" for any other panic; log counts the lines written.
internal_verify_withdraw_callback(predecessor, current, results) ==
    IF ~PrivateGuard(predecessor, current) THEN Ended("rejected", 0)
    ELSE LET p == promise_result_as_success(results)
         IN  IF ~p.ok THEN Ended("panic", 0)
             ELSE IF p.val.some
                  THEN LET parsed == ParseJsonBool(p.val.bytes)
                       IN  IF ~parsed.ok THEN Ended("panic", 0)
                           ELSE Ended(IF parsed.val THEN "true" ELSE "false",
                                      IF ShouldLog(parsed.val) THEN 1 ELSE 0)
                  ELSE Ended("false", 0)

\* lines 111-114: .then(...) makes the callback receipt wait for the remote
\* call's result.
CallbackReadyEarly(state) == state \in {"pending", "settled"}
CallbackReady(state) == state = "settled"

\* lines 87-115: a call of verify_transaction_inclusion as request r. A parse
\* failure panics before the promise is created; otherwise the remote call
\* and its callback are scheduled.
verify_transaction_inclusion(r, a) ==
    /\ r_state[r] = "none"
    /\ r_input' = [r_input EXCEPT ![r] = a]
    /\ LET built == BuildProofArgs(a)
       IN  IF built.ok
           THEN /\ r_state' = [r_state EXCEPT ![r] = "pending"]
                /\ r_sent' = [r_sent EXCEPT ![r] = built.val]
                /\ r_dispatched' = [r_dispatched EXCEPT ![r] = @ + 1]
                /\ UNCHANGED r_error
           ELSE /\ r_state' = [r_state EXCEPT ![r] = "rejected"]
                /\ r_error' = [r_error EXCEPT ![r] = built.err]
                /\ UNCHANGED <<r_sent, r_dispatched>>
    /\ UNCHANGED <<r_result, r_outcome, r_logged, r_cb_runs, ext_last, ext_logged,
                   merkle_vars, hash_vars>>

\* The remote call on btc-client.testnet settles: it fails, or it succeeds
\* with some bytes (the capability is opaque).
RemoteSettle(r) ==
    /\ r_state[r] = "pending"
    /\ \E res \in SettledResults : r_result' = [r_result EXCEPT ![r] = res]
    /\ r_state' = [r_state EXCEPT ![r] = "settled"]
    /\ UNCHANGED <<r_input, r_sent, r_dispatched, r_outcome, r_logged, r_error,
                   r_cb_runs, ext_last, ext_logged, merkle_vars, hash_vars>>

\* The scheduled callback receipt of request r executes: it was created by
\* the contract for itself (line 112), with the remote call's result.
Callback(r) ==
    /\ CallbackReady(r_state[r])
    /\ LET e == internal_verify_withdraw_callback(
                    CurrentAccount, CurrentAccount, <<r_result[r]>>)
       IN  /\ r_outcome' = [r_outcome EXCEPT ![r] = e.outcome]
           /\ r_logged' = [r_logged EXCEPT ![r] = @ + e.log]
    /\ r_cb_runs' = [r_cb_runs EXCEPT ![r] = @ + 1]
    /\ r_state' = [r_state EXCEPT ![r] = "done"]
    /\ UNCHANGED <<r_input, r_sent, r_dispatched, r_result, r_error,
                   ext_last, ext_logged, merkle_vars, hash_vars>>

\* Someone calls internal_verify_withdraw_callback directly. An external
\* account may attach any promise result (by chaining the call after a
\* promise of its own); a plain transaction carries none.
DirectCall(caller, results) ==
    /\ ext_logged < 2
    /\ LET e == internal_verify_withdraw_callback(caller, CurrentAccount, results)
       IN  /\ ext_last' = [caller |-> caller, results |-> results,
                            outcome |-> e.outcome]
           /\ ext_logged' = ext_logged + e.log
    /\ UNCHANGED <<r_state, r_input, r_sent, r_dispatched, r_result, r_outcome,
                   r_logged, r_error, r_cb_runs, merkle_vars, hash_vars>>

ExternalCall ==
    \E caller \in ExternalAccounts :
        \E results \in {<<>>} \cup {<<res>> : res \in SettledResults} :
            DirectCall(caller, results)

OwnCall == DirectCall(CurrentAccount, <<>>)

(***************************************************************************)
(* Specifications                                                          *)
(***************************************************************************)
\* main.rs:98-101: the call, its locals initialised from the arguments.
InitMerkle ==
    /\ tx_hashes \in MerkleInputs
    /\ target_index \in 0..(Len(tx_hashes) + MaxOver)
    /\ m_pc = "loop"
    /\ transaction_position = target_index
    /\ merkle_proof = <<>>
    /\ current_hashes = tx_hashes
    /\ h_input = <<>>
    /\ h_pc = "err"
    /\ h_parsed = Err("")
    /\ h_shown = <<>>
    /\ h_reparsed = Err("")
    /\ r_state = [r \in Requests |-> "none"]
    /\ r_input = [r \in Requests |-> NoArgs]
    /\ r_sent = [r \in Requests |-> NoArgs]
    /\ r_dispatched = [r \in Requests |-> 0]
    /\ r_result = [r \in Requests |-> NotReady]
    /\ r_outcome = [r \in Requests |-> "none"]
    /\ r_logged = [r \in Requests |-> 0]
    /\ r_error = [r \in Requests |-> ""]
    /\ r_cb_runs = [r \in Requests |-> 0]
    /\ ext_last = [caller |-> "", results |-> <<>>, outcome |-> "none"]
    /\ ext_logged = 0

SpecMerkle == InitMerkle /\ [][MerkleNext]_vars

InitHash ==
    /\ h_input \in HexInputs
    /\ h_pc = "start"
    /\ h_parsed = Err("")
    /\ h_shown = <<>>
    /\ h_reparsed = Err("")
    /\ tx_hashes = <<>>
    /\ target_index = 0
    /\ m_pc = "done"
    /\ transaction_position = 0
    /\ merkle_proof = <<>>
    /\ current_hashes = <<>>
    /\ r_state = [r \in Requests |-> "none"]
    /\ r_input = [r \in Requests |-> NoArgs]
    /\ r_sent = [r \in Requests |-> NoArgs]
    /\ r_dispatched = [r \in Requests |-> 0]
    /\ r_result = [r \in Requests |-> NotReady]
    /\ r_outcome = [r \in Requests |-> "none"]
    /\ r_logged = [r \in Requests |-> 0]
    /\ r_error = [r \in Requests |-> ""]
    /\ r_cb_runs = [r \in Requests |-> 0]
    /\ ext_last = [caller |-> "", results |-> <<>>, outcome |-> "none"]
    /\ ext_logged = 0

SpecHash == InitHash /\ [][HashNext]_vars

SubmitNext ==
    \/ \E a \in SubmitArgs : verify_transaction_inclusion(1, a)
    \/ RemoteSettle(1)
    \/ Callback(1)
    \/ ExternalCall
    \/ OwnCall

\* The contract holds no state: no request has been made.
InitProto ==
    /\ r_state = [r \in Requests |-> "none"]
    /\ r_input = [r \in Requests |-> NoArgs]
    /\ r_sent = [r \in Requests |-> NoArgs]
    /\ r_dispatched = [r \in Requests |-> 0]
    /\ r_result = [r \in Requests |-> NotReady]
    /\ r_outcome = [r \in Requests |-> "none"]
    /\ r_logged = [r \in Requests |-> 0]
    /\ r_error = [r \in Requests |-> ""]
    /\ r_cb_runs = [r \in Requests |-> 0]
    /\ ext_last = [caller |-> "", results |-> <<>>, outcome |-> "none"]
    /\ ext_logged = 0
    /\ tx_hashes = <<>>
    /\ target_index = 0
    /\ m_pc = "done"
    /\ transaction_position = 0
    /\ merkle_proof = <<>>
    /\ current_hashes = <<>>
    /\ h_input = <<>>
    /\ h_pc = "err"
    /\ h_parsed = Err("")
    /\ h_shown = <<>>
    /\ h_reparsed = Err("")

SpecSubmit == InitProto /\ [][SubmitNext]_vars

ProtoNext ==
    \/ \E r \in Requests : \E a \in ProtoArgs : verify_transaction_inclusion(r, a)
    \/ \E r \in Requests : RemoteSettle(r)
    \/ \E r \in Requests : Callback(r)
    \/ ExternalCall
    \/ OwnCall

SpecProto == InitProto /\ [][ProtoNext]_vars

\* The runtime executes every receipt it holds: a remote call settles and a
\* callback whose dependency has settled runs.
FairProto ==
    /\ SpecProto
    /\ \A r \in Requests :
          /\ WF_vars(RemoteSettle(r))
          /\ WF_vars(Callback(r))

(***************************************************************************)
(* Properties of the Merkle proof builder (SpecMerkle)                     *)
(***************************************************************************)
ValidTarget == Len(tx_hashes) >= 1 /\ target_index < Len(tx_hashes)

\* The Merkle root by Bitcoin's rule: pair the nodes of a level left to
\* right, an unpaired last node being paired with itself.
RECURSIVE BitcoinMerkleRoot(_)
BitcoinMerkleRoot(level) ==
    IF Len(level) = 1 THEN level[1]
    ELSE BitcoinMerkleRoot(
            [k \in 1..((Len(level) + 1) \div 2) |->
                compute_hash(level[2 * k - 1],
                             IF 2 * k <= Len(level) THEN level[2 * k]
                                                    ELSE level[2 * k - 1])])

\* The verifier's fold of a leaf with a proof.
RECURSIVE FoldProof(_, _, _)
FoldProof(acc, proof, index) ==
    IF proof = <<>> THEN acc
    ELSE FoldProof(IF index % 2 = 1 THEN compute_hash(Head(proof), acc)
                                    ELSE compute_hash(acc, Head(proof)),
                   Tail(proof), index \div 2)

\* The least k with 2^k >= n.
CeilLog2(n) == CHOOSE k \in 0..n : 2 ^ k >= n /\ \A j \in 0..(k - 1) : 2 ^ j < n

\* C1: for a leaf list of length N >= 1 and a target index in [0, N), folding
\* the target leaf with the returned proof gives the Bitcoin Merkle root of
\* the leaf list.
C1_FoldReproducesRoot ==
    (m_pc = "done" /\ ValidTarget) =>
        FoldProof(tx_hashes[target_index + 1], merkle_proof, target_index)
            = BitcoinMerkleRoot(tx_hashes)

\* A proof was returned for the last leaf of a five-leaf list, whose sibling
\* on the first and second level is the duplicated node.
C1_Witness ==
    /\ m_pc = "done"
    /\ Len(tx_hashes) = 5
    /\ target_index = 4
    /\ tx_hashes[4] # tx_hashes[5]
    /\ Len(merkle_proof) = 3
    /\ merkle_proof[1] = tx_hashes[5]

\* C3 (as claimed): a target index outside [0, N) is rejected before proof
\* construction begins: no proof element is pushed and no proof is returned.
C3_OutOfRangeRejected ==
    (Len(tx_hashes) >= 1 /\ target_index >= Len(tx_hashes)) =>
        (merkle_proof = <<>> /\ m_pc # "done")

\* C4: for N >= 1 leaves and a target index in [0, N), the returned proof
\* has exactly ceil(log2(N)) elements (none for N = 1).
C4_ProofLength ==
    (m_pc = "done" /\ ValidTarget) =>
        Len(merkle_proof) = CeilLog2(Len(tx_hashes))

\* A proof of two elements was returned for a three-leaf list.
C4_Witness ==
    /\ m_pc = "done"
    /\ Len(tx_hashes) = 3
    /\ target_index = 2
    /\ Len(merkle_proof) = 2

\* C10: for N >= 1 and a target index in [0, N), at the start of every loop
\* iteration transaction_position is inside the current level, the sibling
\* index read after padding is inside the padded level, and the function
\* never panics on an index.
C10_PositionInsideLevel ==
    ValidTarget =>
        /\ m_pc # "panic"
        /\ m_pc = "loop" => transaction_position < Len(current_hashes)
        /\ (m_pc = "loop" /\ Len(current_hashes) > 1) =>
              SiblingIndex(transaction_position) < Len(PadLevel(current_hashes))

\* A later iteration starts on an odd level with the position on its last
\* node, so the sibling read is the pushed duplicate.
C10_Witness ==
    /\ ValidTarget
    /\ m_pc = "loop"
    /\ Len(merkle_proof) = 1
    /\ Len(current_hashes) = 3
    /\ transaction_position = 2

(***************************************************************************)
(* Properties of the H256 conversions (SpecHash)                           *)
(***************************************************************************)
LowerCase(c) ==
    IF \E i \in 1..6 : UpperDigits[i] = c
    THEN HexDigits[(CHOOSE i \in 1..6 : UpperDigits[i] = c) + 10]
    ELSE c

\* C9: for a hex string that parses, parsing the shown form of the parsed
\* value gives the parsed value again, and the shown form is the input in
\* lowercase (display order), never the stored bytes unreversed.
C9_RoundTrip ==
    h_pc = "reparsed" =>
        /\ h_parsed.ok
        /\ h_reparsed = h_parsed
        /\ h_shown = [i \in 1..Len(h_input) |-> LowerCase(h_input[i])]

\* A value that differs from its own reversal, parsed from a string with an
\* uppercase digit, has been shown and parsed again.
C9_Witness ==
    /\ h_pc = "reparsed"
    /\ h_parsed.val # Reverse(h_parsed.val)
    /\ h_shown # h_input
    /\ h_parsed.val[HashBytes] = 250

(***************************************************************************)
(* Properties of the verification protocol                                 *)
(***************************************************************************)
HexChars == {HexDigits[i] : i \in 1..16} \cup {UpperDigits[i] : i \in 1..6}

\* Valid hex of exactly 32 bytes.
WellFormedHash(s) ==
    Len(s) = 2 * HashBytes /\ \A i \in 1..Len(s) : s[i] \in HexChars

AllWellFormed(a) ==
    /\ WellFormedHash(a.tx_id)
    /\ WellFormedHash(a.tx_block_blockhash)
    /\ \A i \in 1..Len(a.merkle_proof) : WellFormedHash(a.merkle_proof[i])

\* The remote call produced no usable boolean.
Unusable(res) ==
    res.status # "Successful" \/ res.data \notin {"true", "false"}

\* C2 (as claimed): whenever the remote call produced no usable boolean, the
\* callback ends by returning false.
C2_UnusableGivesFalse ==
    \A r \in Requests :
        (r_cb_runs[r] >= 1 /\ Unusable(r_result[r])) => r_outcome[r] = "false"

\* C5 (SpecSubmit): a request with a malformed tx_id, tx_block_blockhash or
\* merkle_proof element panics in verify_transaction_inclusion: no remote
\* call is created, no result arrives and no callback runs for it.
C5_MalformedNeverDispatched ==
    \A r \in Requests :
        (r_state[r] # "none" /\ ~AllWellFormed(r_input[r])) =>
            /\ r_state[r] = "rejected"
            /\ r_error[r] # ""
            /\ r_dispatched[r] = 0
            /\ r_result[r] = NotReady
            /\ r_cb_runs[r] = 0
            /\ r_sent[r] = NoArgs

\* A request was rejected whose only malformed field is the second
\* merkle_proof element, 31 bytes long.
C5_Witness ==
    /\ r_state[1] = "rejected"
    /\ WellFormedHash(r_input[1].tx_id)
    /\ WellFormedHash(r_input[1].tx_block_blockhash)
    /\ Len(r_input[1].merkle_proof) = 2
    /\ WellFormedHash(r_input[1].merkle_proof[1])
    /\ r_input[1].merkle_proof[2] = ShortHex

\* C6 (SpecProto): a callback wrote the "business logic" log line if and
\* only if it returned true, and wrote it once.
C6_LogIffTrue ==
    \A r \in Requests :
        /\ r_logged[r] <= 1
        /\ r_logged[r] = 1 <=> r_outcome[r] = "true"

\* One callback returned true and logged; another ran on a successful
\* remote call answering false, returned false and did not log.
C6_Witness ==
    \E r, q \in Requests :
        /\ r_outcome[r] = "true" /\ r_logged[r] = 1
        /\ r_result[q] = Successful("false")
        /\ r_outcome[q] = "false" /\ r_logged[q] = 0

\* C7 (SpecProto): a direct call of the callback by an external account is
\* rejected, no direct call returns true or logs, and a callback returns
\* true only for a request whose remote call was made and answered true.
C7_CallbackUnforgeable ==
    /\ ext_last.caller \in ExternalAccounts => ext_last.outcome = "rejected"
    /\ ext_last.outcome # "true"
    /\ ext_logged = 0
    /\ \A r \in Requests :
          r_outcome[r] = "true" =>
              r_dispatched[r] = 1 /\ r_result[r] = Successful("true")

\* An external account called the callback with a forged successful true
\* and was rejected, while a genuine request ended true.
C7_Witness ==
    /\ ext_last.caller \in ExternalAccounts
    /\ ext_last.results = <<Successful("true")>>
    /\ ext_last.outcome = "rejected"
    /\ \E r \in Requests : r_outcome[r] = "true"

\* C8 (FairProto): for every request that passed validation the callback
\* runs exactly once, only after the remote call has settled, whatever its
\* result; a rejected request has no callback.
C8_CallbackOnceAfterSettle ==
    /\ [](\A r \in Requests :
            /\ r_cb_runs[r] <= 1
            /\ r_cb_runs[r] = 1 => (r_dispatched[r] = 1 /\ r_result[r] # NotReady)
            /\ r_state[r] \in {"none", "rejected", "pending"} => r_cb_runs[r] = 0)
    /\ \A r \in Requests : (r_dispatched[r] = 1) ~> (r_cb_runs[r] = 1)

\* Two requests in flight together: one callback ran on a failed remote
\* call, the other on a successful one.
C8_Witness ==
    \E r, q \in Requests :
        /\ r_cb_runs[r] = 1 /\ r_result[r] = Failed
        /\ r_cb_runs[q] = 1 /\ r_result[q].status = "Successful"

====
